---- MODULE Spec2Model ----
(***************************************************************************)
(* A model of graphql-authorization.                                       *)
(*                                                                         *)
(* Two request pipelines live in the repository:                           *)
(*   - the wrapper of src/withAuthorization.js ("legacy"): it evaluates    *)
(*     the permission mapping over the arguments of a call with            *)
(*     processAuth, summarizes the result and then runs the operation      *)
(*     through the memoizing closure `run`;                                *)
(*   - the class Authorized (src/unnamed/part_000): forUser(user) builds   *)
(*     a three-phase pipeline (write rules over the inputs, the            *)
(*     operation, read rules over the response) and memoizes it.           *)
(* The resolver isMine is modelled as its tests (src/unnamed/part_001)     *)
(* call it.                                                                *)
(* Values, permission nodes and result trees are tagged records of one     *)
(* shape, so that any two of them can be compared.                         *)
(***************************************************************************)
EXTENDS Naturals, Sequences, FiniteSets, TLC

(***************************************************************************)
(* Bounds of the model.                                                    *)
(***************************************************************************)
\* A request carries at most this many top-level argument fields.
MaxArgFields == 2

(***************************************************************************)
(* Values: the arguments of a call and the results of an operation.        *)
(***************************************************************************)
NoFields == [k \in {} |-> TRUE]

\* A scalar: "str" is a one-character string, "num" a number, "null" and
\* "undef" the two empty values of JavaScript.
Leaf(v) == [t |-> "leaf", v |-> v, f |-> NoFields, o |-> <<>>]

\* An object: its fields f, and its keys o in the order they were inserted.
Obj(o, f) == [t |-> "obj", v |-> "", f |-> f, o |-> o]

\* The object without keys.
EmptyObj == Obj(<<>>, NoFields)

Undef == Leaf("undef")

\* JavaScript's !x for the values of the model.
Falsy(d) == d.t = "leaf" /\ d.v \in {"null", "undef"}

\* The set of the own enumerable keys of a value; a string has its
\* indices, the other scalars have none.
Keys(d) ==
  IF d.t = "obj" THEN DOMAIN d.f
  ELSE IF d.v = "str" THEN {"0"}
  ELSE {}

\* lodash keys(), Object.keys(): the keys in enumeration order, which is
\* the order of insertion.
ObjectKeys(d) ==
  IF d.t = "obj" THEN d.o
  ELSE IF d.v = "str" THEN <<"0">>
  ELSE <<>>

\* The orders in which the keys of a set may have been inserted.
Orders(S) ==
  {s \in [1..Cardinality(S) -> S] : \A i, j \in 1..Cardinality(S) : s[i] = s[j] => i = j}

\* value[key]
Child(d, k) ==
  IF d.t = "obj" THEN (IF k \in DOMAIN d.f THEN d.f[k] ELSE Undef)
  ELSE IF d.v = "str" /\ k = "0" THEN Leaf("str")
  ELSE Undef

\* lodash get(object, path) with the path given as the sequence of its keys.
RECURSIVE Get(_, _)
Get(d, path) ==
  IF path = <<>> THEN d
  ELSE Get(Child(d, Head(path)), Tail(path))

(***************************************************************************)
(* Permission nodes: a boolean, a string naming another resource, a        *)
(* function, or a nested mapping.                                          *)
(***************************************************************************)
PBool(b) == [t |-> "bool", b |-> b, n |-> "", f |-> NoFields]

PDel(r) == [t |-> "del", b |-> FALSE, n |-> r, f |-> NoFields]

PPred(p) == [t |-> "pred", b |-> FALSE, n |-> p, f |-> NoFields]

PSub(f) == [t |-> "sub", b |-> FALSE, n |-> "", f |-> f]

\* What a permission function does when it is called:
\*   deny         returns false
\*   throws       throws
\*   asyncAllow   returns a promise that resolves to true
\*   asyncDeny    returns a promise that resolves to false
\*   asyncReject  returns a promise that rejects
\*   runAsync     calls the run it was handed and returns a promise that
\*                follows it
PredKinds == {"deny", "throws", "asyncAllow", "asyncDeny", "asyncReject", "runAsync"}

(***************************************************************************)
(* Result trees: a boolean, a nested mapping, or (legacy pipeline) the     *)
(* promise a permission function returned.                                 *)
(***************************************************************************)
RBool(b) == [t |-> "bool", b |-> b, n |-> "", f |-> NoFields, o |-> <<>>]

\* A mapping: its fields f, and its keys o in the order of the data it maps.
RObj(o, f) == [t |-> "obj", b |-> FALSE, n |-> "", f |-> f, o |-> o]

RPromise(p) == [t |-> "promise", b |-> FALSE, n |-> p, f |-> NoFields, o |-> <<>>]

\* The mapping without keys.
EmptyTree == RObj(<<>>, NoFields)

\* lodash isBoolean
isBoolean(x) == x.t = "bool"

\* JavaScript truthiness of a result: only false is falsy.
Truthy(x) == x.t # "bool" \/ x.b

\* Object.values(level), in enumeration order.
Values(level) == [i \in 1..Len(level.o) |-> level.f[level.o[i]]]

(***************************************************************************)
(* src/withAuthorization.js: operation names.                              *)
(* A name is the sequence of its camel-case words: updateManyPosts is      *)
(* <<"update", "many", "posts">>.                                          *)
(***************************************************************************)
\* The alternatives of matchQueryType, in the order the expression lists them.
matchQueryType ==
  << <<"create">>, <<"update">>, <<"upsert">>, <<"delete">>,
     <<"update", "many">>, <<"delete", "many">> >>

\* The text of each alternative.
AltText == <<"create", "update", "upsert", "delete", "updateMany", "deleteMany">>

\* Whether the words ws occur in name at position i.
MatchesAt(name, i, ws) ==
  /\ i + Len(ws) - 1 <= Len(name)
  /\ \A j \in 1..Len(ws) : name[i + j - 1] = ws[j]

\* The first alternative that matches at position i, or 0.
RECURSIVE FirstAltAt(_, _, _)
FirstAltAt(name, i, a) ==
  IF a > Len(matchQueryType) THEN 0
  ELSE IF MatchesAt(name, i, matchQueryType[a]) THEN a
  ELSE FirstAltAt(name, i, a + 1)

\* RegExp.exec: the leftmost position that matches, with the first
\* alternative matching there; <<0, 0>> when nothing matches.
RECURSIVE ExecFrom(_, _)
ExecFrom(name, i) ==
  IF i > Len(name) THEN <<0, 0>>
  ELSE IF FirstAltAt(name, i, 1) # 0 THEN <<i, FirstAltAt(name, i, 1)>>
  ELSE ExecFrom(name, i + 1)

\* getQueryType: the matched text, or "throws" for the Error it throws.
getQueryType(queryName) ==
  IF ExecFrom(queryName, 1)[2] # 0 THEN AltText[ExecFrom(queryName, 1)[2]]
  ELSE "throws"

\* const queryType = isRead ? 'get' : getQueryType(queryName)
QueryTypeOf(isRead, queryName) == IF isRead THEN "get" ELSE getQueryType(queryName)

\* The words left of a name once the first match of n words at position i
\* is removed (String.replace with a string pattern).
RemoveAt(name, i, n) ==
  [j \in 1..(Len(name) - n) |-> IF j < i THEN name[j] ELSE name[j + n]]

\* The position of the first word "get" of a name, or 0.
RECURSIVE IndexOfGet(_, _)
IndexOfGet(name, i) ==
  IF i > Len(name) THEN 0
  ELSE IF name[i] = "get" THEN i
  ELSE IndexOfGet(name, i + 1)

\* queryName.replace(queryType, '')
WithoutQueryType(isRead, queryName) ==
  IF isRead
  THEN (IF IndexOfGet(queryName, 1) = 0 THEN queryName
        ELSE RemoveAt(queryName, IndexOfGet(queryName, 1), 1))
  ELSE RemoveAt(queryName, ExecFrom(queryName, 1)[1],
                Len(matchQueryType[ExecFrom(queryName, 1)[2]]))

\* change-case camel() of the words that are left.
camel(ws) ==
  CASE ws = <<"post">> -> "post"
    [] ws = <<"posts">> -> "posts"
    [] ws = <<"many", "posts">> -> "manyPosts"
    [] ws = <<"publish", "post">> -> "publishPost"
    [] OTHER -> ""

\* const resourceName = camel(queryName.replace(queryType, ''))
ResourceNameOf(isRead, queryName) == camel(WithoutQueryType(isRead, queryName))

(***************************************************************************)
(* src/withAuthorization.js: summarizeAuthResult.                          *)
(***************************************************************************)
\* JavaScript's a && b
AndJS(a, b) == IF Truthy(a) THEN b ELSE a

RECURSIVE traverse(_, _)
RECURSIVE reduceTraverse(_, _, _)
\* const traverse = (sum, level) => ...
traverse(sum, level) ==
  IF isBoolean(level) THEN AndJS(sum, level)
  ELSE reduceTraverse(Values(level), 1, sum)

\* Object.values(level).reduce(traverse, sum)
reduceTraverse(vals, i, acc) ==
  IF i > Len(vals) THEN acc
  ELSE reduceTraverse(vals, i + 1, traverse(acc, vals[i]))

\* return traverse(authResult, true): the tree is passed as sum, true as level.
summarizeAuthResult(authResult) == traverse(authResult, RBool(TRUE))

(***************************************************************************)
(* src/withAuthorization.js: processAuth.                                  *)
(* An evaluation yields [r, threw, runs]: the result tree, whether a       *)
(* permission function threw (the tree is then void), and every run the    *)
(* permission functions called, in call order. A run is the sequence of    *)
(* the paths it projects at, outermost first: <<>> is the run of wrapped.  *)
(***************************************************************************)
\* A projected run that reads the result of the operation at its own path,
\* not the result of its parent run.
createSubLevelRunFnFromRoot(path, run) == <<path>>

\* createSubLevelRunFn(path, run): nothing runs yet.
createSubLevelRunFn(path, run) == Append(run, path)

\* What a run resolves to once the operation has resolved to result:
\* get(await run(), path) at every level of projection.
RECURSIVE RunValue(_, _)
RunValue(result, run) ==
  IF run = <<>> THEN result
  ELSE Get(RunValue(result, SubSeq(run, 1, Len(run) - 1)), run[Len(run)])

\* lodash get over the mapping, with the path given by its keys; "absent"
\* stands for undefined.
RECURSIVE GetNode(_, _)
GetNode(node, path) ==
  IF path = <<>> THEN node
  ELSE IF node.t = "sub" /\ Head(path) \in DOMAIN node.f
  THEN GetNode(node.f[Head(path)], Tail(path))
  ELSE [t |-> "absent", b |-> FALSE, n |-> "", f |-> NoFields]

\* A lookup whose default, for a path without an entry, is true.
getAuthResolverAllowsMissing(mapping, resourceName, queryType, queryPath) ==
  IF GetNode(mapping, <<resourceName, queryType>> \o queryPath).t = "absent"
  THEN PBool(TRUE)
  ELSE GetNode(mapping, <<resourceName, queryType>> \o queryPath)

\* get(authMapping, `${resourceName}.${queryType}.${queryPath}`, false)
getAuthResolver(mapping, resourceName, queryType, queryPath) ==
  IF GetNode(mapping, <<resourceName, queryType>> \o queryPath).t = "absent"
  THEN PBool(FALSE)
  ELSE GetNode(mapping, <<resourceName, queryType>> \o queryPath)

\* authResolver(rootArgs, run, ctx): the call of a permission function that
\* was handed the run proj.
CallResolver(kind, proj) ==
  CASE kind = "deny" -> [r |-> RBool(FALSE), threw |-> FALSE, runs |-> <<>>]
    [] kind = "throws" -> [r |-> RBool(FALSE), threw |-> TRUE, runs |-> <<>>]
    [] kind = "runAsync" -> [r |-> RPromise(kind), threw |-> FALSE, runs |-> <<proj>>]
    [] OTHER -> [r |-> RPromise(kind), threw |-> FALSE, runs |-> <<>>]

RECURSIVE processLevel(_, _, _, _, _, _, _)
RECURSIVE processPath(_, _, _, _, _, _, _, _)
RECURSIVE mapValuesFrom(_, _, _, _, _, _, _, _, _)

\* processPath(value, authResolver, absoluteKey), in the closure of a
\* processAuth over rootArgs whose run is proj, in the wrapQuery
\* closure of (resourceName, queryType).
processPath(value, authResolver, absoluteKey, rootArgs, proj, mapping, resourceName, queryType) ==
  CASE authResolver.t = "sub" ->
         processLevel(value, absoluteKey, rootArgs, proj, mapping, resourceName, queryType)
    [] authResolver.t = "bool" ->
         [r |-> RBool(authResolver.b), threw |-> FALSE, runs |-> <<>>]
    [] authResolver.t = "del" ->
         \* processAuth(subArgs, subRun, info, ctx): the same closure, hence
         \* the same resourceName and queryType
         processLevel(Get(rootArgs, absoluteKey), <<>>, Get(rootArgs, absoluteKey),
                      createSubLevelRunFn(absoluteKey, proj), mapping, resourceName, queryType)
    [] OTHER -> CallResolver(authResolver.n, proj)

\* mapValues over the keys ks[i..], acc holding what the earlier keys gave.
mapValuesFrom(ks, i, acc, args, levelKey, rootArgs, proj, mapping, rt) ==
  IF i > Len(ks) \/ acc.threw THEN acc
  ELSE LET absKey == levelKey \o <<ks[i]>>
           one == processPath(Child(args, ks[i]),
                              getAuthResolver(mapping, rt[1], rt[2], absKey),
                              absKey, rootArgs, proj, mapping, rt[1], rt[2])
       IN mapValuesFrom(ks, i + 1,
                        [r |-> RObj(Append(acc.r.o, ks[i]), acc.r.f @@ (ks[i] :> one.r)),
                         threw |-> one.threw,
                         runs |-> acc.runs \o one.runs],
                        args, levelKey, rootArgs, proj, mapping, rt)

\* processLevel(args, levelKey)
processLevel(args, levelKey, rootArgs, proj, mapping, resourceName, queryType) ==
  mapValuesFrom(ObjectKeys(args), 1,
                [r |-> EmptyTree, threw |-> FALSE, runs |-> <<>>],
                args, levelKey, rootArgs, proj, mapping, <<resourceName, queryType>>)

\* processAuth(rootArgs, run, info, ctx) once info has parsed
processAuth(rootArgs, mapping, resourceName, queryType) ==
  processLevel(rootArgs, <<>>, rootArgs, <<>>, mapping, resourceName, queryType)

(***************************************************************************)
(* The inputs of the legacy wrapper.                                       *)
(***************************************************************************)
\* The permission nodes a mapping may hold at each field.
TitleNodes == {PBool(TRUE), PBool(FALSE)} \cup {PPred(k) : k \in PredKinds}

AuthorNodes ==
  {PBool(TRUE), PDel("user"), PSub([email |-> PBool(TRUE)]), PSub([email |-> PBool(FALSE)])}

EmailNodes == {PBool(TRUE), PPred("runAsync"), PPred("throws")}

FieldNodes(k) ==
  CASE k = "title" -> TitleNodes
    [] k = "author" -> AuthorNodes
    [] OTHER -> EmailNodes

PolicyFields == {"title", "author", "email"}

\* The rules of one resource for one query type: any subset of the fields,
\* each with one of its nodes.
Policies ==
  UNION { {f \in [S -> TitleNodes \cup AuthorNodes \cup EmailNodes] :
             \A k \in S : f[k] \in FieldNodes(k)} : S \in SUBSET PolicyFields }

\* The rules that allow every field.
AllowAll == [title |-> PBool(TRUE), author |-> PSub([email |-> PBool(TRUE)]), email |-> PBool(TRUE)]

\* The rules of the resource user.
UserRules == PSub([get |-> PSub([email |-> PBool(TRUE)]), create |-> PSub([email |-> PBool(TRUE)])])

\* Rules written with a dotted key: {title: true, 'author.email': false}.
FlatKeyRules == ("title" :> PBool(TRUE)) @@ ("author.email" :> PBool(FALSE))

FlatKeyMapping ==
  PSub([post |-> PSub([get |-> PSub(FlatKeyRules), create |-> PSub(AllowAll)]), user |-> UserRules])

\* roleAuthMapping(rootAuthMapping, user.role): the mappings a role may
\* resolve to. One query type of post carries the rules under study, the
\* other allows everything.
LegacyMappings ==
  {PSub([post |-> PSub([get |-> PSub(p), create |-> PSub(AllowAll)]), user |-> UserRules]) :
     p \in Policies}
  \cup
  {PSub([post |-> PSub([get |-> PSub(AllowAll), create |-> PSub(p)]), user |-> UserRules]) :
     p \in Policies}
  \cup {FlatKeyMapping}

\* The values an argument field may carry.
ArgValues(k) ==
  IF k = "author"
  THEN {Leaf("str"), EmptyObj, Obj(<<"email">>, [email |-> Leaf("str")]),
        Obj(<<"author">>, [author |-> Obj(<<"email">>, [email |-> Leaf("str")])])}
  ELSE {Leaf("str")}

\* The arguments of a call: at most MaxArgFields fields, inserted in any
\* order.
ArgObjects ==
  UNION { {Obj(o, f) : o \in Orders(S),
                       f \in {g \in [S -> UNION {ArgValues(k) : k \in PolicyFields}] :
                                \A k \in S : g[k] \in ArgValues(k)}} :
          S \in {T \in SUBSET PolicyFields : Cardinality(T) <= MaxArgFields} }

\* prisma.query and prisma.mutation: the names of the operations.
QueryNames == {<<"post">>}

KnownMutationNames == {<<"create", "post">>}

\* A mutation whose name holds none of the words of matchQueryType.
UnknownMutationName == <<"publish", "post">>

\* The mutations over many posts.
ManyMutationNames == {<<"update", "many", "posts">>, <<"delete", "many", "posts">>}

\* A mapping with rules for the mutations over many posts.
ManyMapping ==
  PSub([posts |-> PSub([updateMany |-> PSub([title |-> PBool(TRUE)]),
                        deleteMany |-> PSub([title |-> PBool(TRUE)])])])

\* The keys prisma.mutation may have.
MutationNameSets == {KnownMutationNames, KnownMutationNames \cup {UnknownMutationName}}

\* What an operation may resolve to: nothing, or a post with its author.
OpValues ==
  {Leaf("null"),
   Obj(<<"title", "author">>,
       [title |-> Leaf("str"),
        author |-> Obj(<<"email", "author">>,
                       [email |-> Leaf("str"),
                        author |-> Obj(<<"email">>, [email |-> Leaf("str")])])])}

(***************************************************************************)
(* The collaborators of the class Authorized that src/ does not hold       *)
(* (./Authorizer and ./utils), after sections 4.1 to 4.4 of the            *)
(* specification.                                                          *)
(***************************************************************************)
\* The names of the types of the schema.
TypeNames == {"Post", "User", "PostCreateInput", "PostWhereInput"}

\* getQueryTypes.input(typeDefs, rootType, queryName): argument name -> type name.
InputTypes(rootType, queryName) ==
  IF rootType = "Mutation" THEN [data |-> "PostCreateInput"] ELSE [where |-> "PostWhereInput"]

\* getQueryTypes.response(typeDefs, rootType, queryName)
ResponseType(rootType, queryName) == "Post"

\* utils.summarizeAuthResult: the conjunction of the boolean leaves.
RECURSIVE Summarize(_)
Summarize(result) ==
  IF result.t = "bool" THEN result.b
  ELSE \A k \in DOMAIN result.f : Summarize(result.f[k])

\* applyDerivedTypePermissions(typeDefs)(permissionMap): a type without an
\* entry gets rules that deny every field; the entries given are kept.
DenyAll == PSub([read |-> PSub(NoFields), write |-> PSub(NoFields)])

applyDerivedTypePermissions(permissionMap) ==
  PSub([t \in TypeNames |->
          IF t \in DOMAIN permissionMap.f THEN permissionMap.f[t] ELSE DenyAll])

\* A permission function awaited by the Authorizer: [r, err].
AwaitResolver(kind) ==
  CASE kind \in {"throws", "asyncReject"} -> [r |-> RBool(FALSE), err |-> "evalError"]
    [] kind = "asyncAllow" -> [r |-> RBool(TRUE), err |-> "none"]
    [] OTHER -> [r |-> RBool(FALSE), err |-> "none"]

RECURSIVE AuthLevel(_, _, _, _, _, _)
RECURSIVE AuthPath(_, _, _, _, _, _, _)
RECURSIVE AuthFold(_, _, _, _, _, _, _, _)

\* Section 4.4, processPath.
AuthPath(value, node, absolutePath, rootData, map, typeName, authType) ==
  CASE node.t = "bool" -> [r |-> RBool(node.b), err |-> "none"]
    [] node.t = "sub" -> AuthLevel(value, absolutePath, rootData, map, typeName, authType)
    [] node.t = "del" ->
         IF node.n \notin DOMAIN map.f
         THEN [r |-> RBool(FALSE), err |-> "unknownResource"]
         ELSE AuthLevel(Get(rootData, absolutePath), <<>>, Get(rootData, absolutePath),
                        map, node.n, authType)
    [] OTHER -> AwaitResolver(node.n)

\* The children of a level, all awaited; the first error is the level's.
AuthFold(ks, i, acc, value, levelPath, rootData, map, ta) ==
  IF i > Len(ks) THEN acc
  ELSE LET absPath == levelPath \o <<ks[i]>>
           one == AuthPath(Child(value, ks[i]),
                           getAuthResolver(map, ta[1], ta[2], absPath),
                           absPath, rootData, map, ta[1], ta[2])
       IN AuthFold(ks, i + 1,
                   [r |-> RObj(Append(acc.r.o, ks[i]), acc.r.f @@ (ks[i] :> one.r)),
                    err |-> IF acc.err # "none" THEN acc.err ELSE one.err],
                   value, levelPath, rootData, map, ta)

\* Section 4.4, processLevel.
AuthLevel(value, levelPath, rootData, map, typeName, authType) ==
  AuthFold(ObjectKeys(value), 1, [r |-> EmptyTree, err |-> "none"],
           value, levelPath, rootData, map, <<typeName, authType>>)

\* authorizer.authorize({typeName, authType, data, context, rootData})
Authorize(map, typeName, authType, data) ==
  AuthLevel(data, <<>>, data, map, typeName, authType)

(***************************************************************************)
(* src/unnamed/part_000: the phases of a wrapped operation.                *)
(***************************************************************************)
RECURSIVE InputsFold(_, _, _, _, _, _)
\* mapPromiseValues(mapValues(inputs, (value, key) => authorizer.authorize(
\*   {typeName: inputTypes[key], authType: 'write', data: value, ...})))
InputsFold(ks, i, acc, inputs, inputTypes, map) ==
  IF i > Len(ks) THEN acc
  ELSE LET one == Authorize(map,
                            IF ks[i] \in DOMAIN inputTypes THEN inputTypes[ks[i]] ELSE "",
                            "write", Child(inputs, ks[i]))
       IN InputsFold(ks, i + 1,
                     [r |-> RObj(Append(acc.r.o, ks[i]), acc.r.f @@ (ks[i] :> one.r)),
                      err |-> IF acc.err # "none" THEN acc.err ELSE one.err],
                     inputs, inputTypes, map)

validateInputs(map, inputTypes, inputs) ==
  InputsFold(ObjectKeys(inputs), 1, [r |-> EmptyTree, err |-> "none"], inputs, inputTypes, map)

\* authorizer.authorize({typeName: responseType, authType: 'read', data: queryResponse, ...})
validateResponse(map, responseType, queryResponse) ==
  Authorize(map, responseType, "read", queryResponse)

(***************************************************************************)
(* The inputs of the class Authorized.                                     *)
(***************************************************************************)
Users == {"u1", "u2"}

\* Permission maps: write rules of the input type of createPost, read rules
\* of Post and of User.
MapOpen ==
  PSub([PostCreateInput |-> PSub([write |-> PSub([title |-> PBool(TRUE)])]),
        PostWhereInput |-> PSub([write |-> PSub([title |-> PBool(TRUE)])]),
        Post |-> PSub([read |-> PSub([title |-> PBool(TRUE), author |-> PDel("User")])]),
        User |-> PSub([read |-> PSub([email |-> PBool(TRUE)])])])

MapNoWrite ==
  PSub([PostCreateInput |-> PSub([write |-> PSub([title |-> PBool(FALSE)])]),
        Post |-> PSub([read |-> PSub([title |-> PPred("asyncReject"), author |-> PDel("User")])]),
        User |-> PSub([read |-> PSub([email |-> PBool(TRUE)])])])

MapNoRead ==
  PSub([PostCreateInput |-> PSub([write |-> PSub([title |-> PBool(TRUE)])]),
        Post |-> PSub([read |-> PSub([title |-> PBool(TRUE),
                                      author |-> PSub([email |-> PPred("asyncDeny")])])])])

MapBroken ==
  PSub([PostCreateInput |-> PSub([write |-> PSub([title |-> PPred("throws")])]),
        PostWhereInput |-> PSub([write |-> PSub([title |-> PBool(TRUE)])]),
        Post |-> PSub([read |-> PSub([title |-> PBool(TRUE), author |-> PDel("Account")])])])

PermissionMaps == {MapOpen, MapNoWrite, MapNoRead, MapBroken}

\* The inputs of a call of an operation of the class.
InputObjects ==
  {EmptyObj,
   Obj(<<"data">>, [data |-> Obj(<<"title">>, [title |-> Leaf("str")])]),
   Obj(<<"where">>, [where |-> Obj(<<"title">>, [title |-> Leaf("str")])])}

\* What an operation of the class may resolve to.
ResponseValues ==
  {Obj(<<"title">>, [title |-> Leaf("str")]),
   Obj(<<"title", "author">>,
       [title |-> Leaf("str"), author |-> Obj(<<"email">>, [email |-> Leaf("str")])]),
   Obj(<<"author">>,
       [author |-> Obj(<<"author">>, [author |-> Obj(<<"email">>, [email |-> Leaf("str")])])])}

(***************************************************************************)
(* The resolver isMine, as its tests (src/unnamed/part_001) call it:        *)
(* isMine(queryName, config)(data, ctx).                                   *)
(***************************************************************************)
\* The ids of the users.
MineUserIds == {"foo", "bar"}

\* The ids of the resources.
MineResourceIds == {"r", "r1"}

\* The default configuration and the custom one of the tests.
relationshipPath(config) ==
  IF config = "custom" THEN <<"thing", "user", "id">> ELSE <<"user", "id">>

resourceIdPath(config) ==
  IF config = "custom" THEN <<"thing", "id">> ELSE <<"id">>

\* A resource with its relationship, and one without.
WithUser(rid, uid) ==
  Obj(<<"id", "user">>, [id |-> Leaf(rid), user |-> Obj(<<"id">>, [id |-> Leaf(uid)])])

WithoutUser(rid) == Obj(<<"id">>, [id |-> Leaf(rid)])

\* The data the check is given under each configuration.
MineData(config) ==
  IF config = "custom"
  THEN {Obj(<<"thing">>, [thing |-> WithUser(rid, uid)]) :
          rid \in MineResourceIds, uid \in MineUserIds}
  ELSE {WithUser(rid, uid) : rid \in MineResourceIds, uid \in MineUserIds}
       \cup {WithoutUser(rid) : rid \in MineResourceIds}

\* What ctx.prisma.query[queryName] may resolve to.
MineResponses ==
  {Obj(<<"user">>, [user |-> Obj(<<"id">>, [id |-> Leaf(uid)])]) : uid \in MineUserIds}

(***************************************************************************)
(* State.                                                                  *)
(***************************************************************************)
VARIABLES
  impl,          \* what runs: the "legacy" wrapper, the class "authorized", or the resolver "isMine"
  authMapping,   \* legacy: the mapping of the user's role
  mutationNames, \* legacy: the keys of prisma.mutation
  lwrap,         \* legacy: "no", "ok" (operations wrapped) or "threw"
  lpc,           \* legacy: where the call of a wrapped operation stands
  lcall,         \* legacy: the call, [name, isRead, args, infoOk]
  authResult,    \* legacy: the tree processAuth returned
  runResult,     \* legacy: the variable of that name, [e, v]: the value and the execution it came from
  execs,         \* legacy: the calls of queryFunction, in call order
  outcome,       \* legacy: how the call ended
  permissionMap, \* Authorized: this.permissionMap
  autoDerive,    \* Authorized: options.autoGenerateDerivedTypePermissions
  cache,         \* Authorized: forUser.cache, key -> the pipeline stored under it, [user, map]
  handle,        \* Authorized: what the last forUser returned, [user, map, current]
  apc,           \* Authorized: where the call of a wrapped operation stands
  areq,          \* Authorized: the call and what its phases produced
  asked,         \* Authorized: the user the last forUser was called with
  compiles,      \* Authorized: user -> the pipelines built for the user since the cache was last cleared
  lastHit,       \* Authorized: whether the last forUser was served from the cache
  mine           \* isMine: the check in hand, its inputs, the queries it made and its result

lvars == <<authMapping, mutationNames, lwrap, lpc, lcall, authResult, runResult, execs, outcome>>

avars == <<permissionMap, autoDerive, cache, handle, apc, areq, asked, compiles, lastHit>>

vars == <<impl, authMapping, mutationNames, lwrap, lpc, lcall, authResult, runResult, execs,
          outcome, permissionMap, autoDerive, cache, handle, apc, areq, asked, compiles,
          lastHit, mine>>

mvars == <<mine>>

NoCall == [name |-> <<>>, isRead |-> FALSE, args |-> Undef, infoOk |-> TRUE]

NoTree == EmptyTree

\* let runResult;
Unset == [e |-> 0, v |-> Undef]

NoOutcome == [kind |-> "none", v |-> Unset, tree |-> NoTree]

EmptyMapping == PSub(NoFields)

NoHandle == [user |-> "", map |-> EmptyMapping, current |-> FALSE]

NoRequest ==
  [user |-> "", map |-> EmptyMapping, rootType |-> "", name |-> <<>>, inputs |-> Undef,
   inTree |-> NoTree, response |-> Undef, outTree |-> NoTree, opCalls |-> 0,
   kind |-> "none"]

\* No check of isMine is in hand.
NoCheck ==
  [pc |-> "idle", config |-> "", data |-> Undef, user |-> "", queries |-> <<>>,
   fetched |-> Undef, result |-> FALSE]

\* No pipeline has been built.
NoCompiles == [u \in Users |-> 0]

LegacyIdle ==
  /\ lwrap = "no"
  /\ lpc = "idle"
  /\ lcall = NoCall
  /\ authResult = NoTree
  /\ runResult = Unset
  /\ execs = <<>>
  /\ outcome = NoOutcome

AuthorizedIdle ==
  /\ cache = NoFields
  /\ handle = NoHandle
  /\ apc = "idle"
  /\ areq = NoRequest
  /\ asked = ""
  /\ compiles = NoCompiles
  /\ lastHit = FALSE

Init ==
  /\ LegacyIdle
  /\ AuthorizedIdle
  /\ mine = NoCheck
  /\ \/ /\ impl = "legacy"
        /\ \/ /\ authMapping \in LegacyMappings
              /\ mutationNames \in MutationNameSets
           \/ /\ authMapping = ManyMapping
              /\ mutationNames = ManyMutationNames
        /\ permissionMap = EmptyMapping
        /\ autoDerive = TRUE
     \/ /\ impl = "authorized"
        /\ authMapping = EmptyMapping
        /\ mutationNames = {}
        /\ permissionMap \in PermissionMaps
        /\ autoDerive \in BOOLEAN
     \/ /\ impl = "isMine"
        /\ authMapping = EmptyMapping
        /\ mutationNames = {}
        /\ permissionMap = EmptyMapping
        /\ autoDerive = TRUE

(***************************************************************************)
(* src/withAuthorization.js: the wrapper.                                  *)
(***************************************************************************)
\* (prisma, rootAuthMapping) => user => ...: every operation is wrapped, and
\* wrapQuery throws for a mutation whose name getQueryType does not know.
LegacyWrap ==
  /\ impl = "legacy"
  /\ lwrap = "no"
  /\ lwrap' = IF \E m \in mutationNames : getQueryType(m) = "throws" THEN "threw" ELSE "ok"
  /\ UNCHANGED <<impl, authMapping, mutationNames, lpc, lcall, authResult, runResult, execs, outcome>>
  /\ UNCHANGED avars
  /\ UNCHANGED mvars

\* if (!runResult) in run
RunInvokes(rr) == Falsy(rr.v)

\* The calls of queryFunction made by the runs that the permission functions
\* called while processAuth ran: runResult cannot change in between.
ResolverExecs(runs, rr) ==
  IF RunInvokes(rr)
  THEN [i \in 1..Len(runs) |-> [by |-> "resolver", proj |-> runs[i], st |-> "pending", v |-> Undef]]
  ELSE <<>>

\* wrapped(args, info, ctx) up to its await of processAuth.
LegacyCall(name, isRead, args, infoOk) ==
  /\ lwrap = "ok"
  /\ lpc = "idle"
  /\ lcall' = [name |-> name, isRead |-> isRead, args |-> args, infoOk |-> infoOk]
  /\ runResult' = Unset
  /\ IF ~infoOk
     THEN \* gql`${info}` throws before any level is processed
          /\ lpc' = "failed"
          /\ outcome' = [kind |-> "syntaxError", v |-> Unset, tree |-> NoTree]
          /\ authResult' = NoTree
          /\ execs' = <<>>
     ELSE LET ev == processAuth(args, authMapping, ResourceNameOf(isRead, name),
                                QueryTypeOf(isRead, name))
          IN /\ execs' = ResolverExecs(ev.runs, Unset)
             /\ IF ev.threw
                THEN /\ lpc' = "failed"
                     /\ outcome' = [kind |-> "threw", v |-> Unset, tree |-> NoTree]
                     /\ authResult' = NoTree
                ELSE /\ lpc' = "awaitAuth"
                     /\ outcome' = NoOutcome
                     /\ authResult' = ev.r
  /\ UNCHANGED <<impl, authMapping, mutationNames, lwrap>>
  /\ UNCHANGED avars
  /\ UNCHANGED mvars

\* wrapped after the await: summarize, throw or return run().
LegacyResume ==
  /\ lpc = "awaitAuth"
  /\ IF ~Truthy(summarizeAuthResult(authResult))
     THEN /\ lpc' = "failed"
          /\ outcome' = [kind |-> "denied", v |-> Unset, tree |-> authResult]
          /\ execs' = execs
     ELSE IF RunInvokes(runResult)
     THEN /\ lpc' = "awaitRun"
          /\ execs' = Append(execs, [by |-> "wrapped", proj |-> <<>>, st |-> "pending", v |-> Undef])
          /\ outcome' = outcome
     ELSE /\ lpc' = "done"
          /\ outcome' = [kind |-> "value", v |-> runResult, tree |-> authResult]
          /\ execs' = execs
  /\ UNCHANGED <<impl, authMapping, mutationNames, lwrap, lcall, authResult, runResult>>
  /\ UNCHANGED avars
  /\ UNCHANGED mvars

\* queryFunction's promise resolves: runResult = await queryFunction(args, info),
\* and the run that awaited it returns runResult (projected for a sub-level run).
OpResolves(i, val) ==
  /\ lpc \in {"awaitAuth", "awaitRun"}
  /\ i \in DOMAIN execs
  /\ execs[i].st = "pending"
  /\ runResult' = [e |-> i, v |-> val]
  /\ execs' = [execs EXCEPT ![i].st = "resolved", ![i].v = RunValue(val, execs[i].proj)]
  /\ IF execs[i].by = "wrapped"
     THEN /\ lpc' = "done"
          /\ outcome' = [kind |-> "value", v |-> [e |-> i, v |-> val], tree |-> authResult]
     ELSE UNCHANGED <<lpc, outcome>>
  /\ UNCHANGED <<impl, authMapping, mutationNames, lwrap, lcall, authResult>>
  /\ UNCHANGED avars
  /\ UNCHANGED mvars

\* queryFunction's promise rejects: the run that awaited it rejects, and
\* runResult is left as it was.
OpRejects(i) ==
  /\ lpc \in {"awaitAuth", "awaitRun"}
  /\ i \in DOMAIN execs
  /\ execs[i].st = "pending"
  /\ execs' = [execs EXCEPT ![i].st = "rejected"]
  /\ IF execs[i].by = "wrapped"
     THEN /\ lpc' = "failed"
          /\ outcome' = [kind |-> "opError", v |-> Unset, tree |-> authResult]
     ELSE UNCHANGED <<lpc, outcome>>
  /\ UNCHANGED <<impl, authMapping, mutationNames, lwrap, lcall, authResult, runResult>>
  /\ UNCHANGED avars
  /\ UNCHANGED mvars

\* The caller has the outcome; the next call starts afresh.
LegacyReturn ==
  /\ lpc \in {"done", "failed"}
  /\ lpc' = "idle"
  /\ lcall' = NoCall
  /\ authResult' = NoTree
  /\ runResult' = Unset
  /\ execs' = <<>>
  /\ outcome' = NoOutcome
  /\ UNCHANGED <<impl, authMapping, mutationNames, lwrap>>
  /\ UNCHANGED avars
  /\ UNCHANGED mvars

(***************************************************************************)
(* src/unnamed/part_000: the class Authorized.                             *)
(***************************************************************************)
\* completePermissionMap in forUser
CompleteMap(map, derive) == IF derive THEN applyDerivedTypePermissions(map) ELSE map

\* forUser.cache.clear()
ClearedCache == NoFields

\* setPermissionMap without its forUser.cache.clear().
SetPermissionMapKeepsCache(map) ==
  /\ impl = "authorized"
  /\ permissionMap' = map
  /\ handle' = [handle EXCEPT !.current = FALSE]
  /\ UNCHANGED <<impl, autoDerive, cache, apc, areq, asked, compiles, lastHit>>
  /\ UNCHANGED lvars
  /\ UNCHANGED mvars

\* setPermissionMap(permissionMap)
SetPermissionMap(map) ==
  /\ impl = "authorized"
  /\ permissionMap' = map
  /\ cache' = ClearedCache
  /\ compiles' = NoCompiles
  /\ handle' = [handle EXCEPT !.current = FALSE]
  /\ UNCHANGED <<impl, autoDerive, apc, areq, asked, lastHit>>
  /\ UNCHANGED lvars
  /\ UNCHANGED mvars

\* The key memoize stores a pipeline under: the cache is keyed by the
\* identity of the principal.
CacheKey(user) == user

\* The body of forUser: the pipeline closes over user and over the
\* permission map completed from this.permissionMap.
BuildPipeline(user, map, derive) == [user |-> user, map |-> CompleteMap(map, derive)]

\* forUser without memoize: every call builds a pipeline.
ForUserNoMemo(user) ==
  /\ impl = "authorized"
  /\ asked' = user
  /\ lastHit' = FALSE
  /\ handle' = [user |-> user, map |-> CompleteMap(permissionMap, autoDerive), current |-> TRUE]
  /\ cache' = [k \in DOMAIN cache \cup {CacheKey(user)} |->
                 IF k = CacheKey(user) THEN BuildPipeline(user, permissionMap, autoDerive)
                 ELSE cache[k]]
  /\ compiles' = [compiles EXCEPT ![user] = @ + 1]
  /\ UNCHANGED <<impl, permissionMap, autoDerive, apc, areq>>
  /\ UNCHANGED lvars
  /\ UNCHANGED mvars

\* forUser(user): memoize returns the pipeline stored under the key of user,
\* or builds one and stores it.
ForUser(user) ==
  /\ impl = "authorized"
  /\ asked' = user
  /\ lastHit' = (CacheKey(user) \in DOMAIN cache)
  /\ IF CacheKey(user) \in DOMAIN cache
     THEN /\ handle' = [user |-> cache[CacheKey(user)].user,
                        map |-> cache[CacheKey(user)].map, current |-> TRUE]
          /\ cache' = cache
          /\ compiles' = compiles
     ELSE /\ handle' = [user |-> user, map |-> CompleteMap(permissionMap, autoDerive),
                        current |-> TRUE]
          /\ cache' = cache @@ (CacheKey(user) :> BuildPipeline(user, permissionMap, autoDerive))
          /\ compiles' = [compiles EXCEPT ![user] = @ + 1]
  /\ UNCHANGED <<impl, permissionMap, autoDerive, apc, areq>>
  /\ UNCHANGED lvars
  /\ UNCHANGED mvars

\* A wrapped operation that calls queryFunction before it validates the inputs.
AuthCallRunsFirst(rootType, name, inputs) ==
  /\ impl = "authorized"
  /\ handle.user # ""
  /\ apc = "idle"
  /\ areq' = [NoRequest EXCEPT !.user = handle.user, !.map = handle.map,
                               !.rootType = rootType, !.name = name, !.inputs = inputs,
                               !.opCalls = 1]
  /\ apc' = IF rootType = "Query" THEN "executing" ELSE "validatingInput"
  /\ UNCHANGED <<impl, permissionMap, autoDerive, cache, handle, asked, compiles, lastHit>>
  /\ UNCHANGED lvars
  /\ UNCHANGED mvars

\* A wrapped operation of the pipeline in hand is called: a query calls
\* queryFunction at once, a mutation first validates its inputs.
AuthCall(rootType, name, inputs) ==
  /\ impl = "authorized"
  /\ handle.user # ""
  /\ apc = "idle"
  /\ areq' = [NoRequest EXCEPT !.user = handle.user, !.map = handle.map,
                               !.rootType = rootType, !.name = name, !.inputs = inputs,
                               !.opCalls = IF rootType = "Query" THEN 1 ELSE 0]
  /\ apc' = IF rootType = "Query" THEN "executing" ELSE "validatingInput"
  /\ UNCHANGED <<impl, permissionMap, autoDerive, cache, handle, asked, compiles, lastHit>>
  /\ UNCHANGED lvars
  /\ UNCHANGED mvars

\* Phase 1 evaluated against this.permissionMap as it is when the phase
\* ends, not against the mapping the pipeline was built with.
InputValidatedCurrentMap ==
  /\ apc = "validatingInput"
  /\ LET ev == validateInputs(CompleteMap(permissionMap, autoDerive),
                              InputTypes(areq.rootType, areq.name), areq.inputs)
     IN IF ev.err # "none"
        THEN /\ apc' = "failed"
             /\ areq' = [areq EXCEPT !.kind = ev.err]
        ELSE IF ~Summarize(ev.r)
        THEN /\ apc' = "failed"
             /\ areq' = [areq EXCEPT !.kind = "denied", !.inTree = ev.r]
        ELSE /\ apc' = "executing"
             /\ areq' = [areq EXCEPT !.inTree = ev.r, !.opCalls = @ + 1]
  /\ UNCHANGED <<impl, permissionMap, autoDerive, cache, handle, asked, compiles, lastHit>>
  /\ UNCHANGED lvars
  /\ UNCHANGED mvars

\* Phase 1 is over: await validateInputs() settled.
InputValidated ==
  /\ apc = "validatingInput"
  /\ LET ev == validateInputs(areq.map, InputTypes(areq.rootType, areq.name), areq.inputs)
     IN IF ev.err # "none"
        THEN /\ apc' = "failed"
             /\ areq' = [areq EXCEPT !.kind = ev.err]
        ELSE IF ~Summarize(ev.r)
        THEN /\ apc' = "failed"
             /\ areq' = [areq EXCEPT !.kind = "denied", !.inTree = ev.r]
        ELSE /\ apc' = "executing"
             /\ areq' = [areq EXCEPT !.inTree = ev.r, !.opCalls = @ + 1]
  /\ UNCHANGED <<impl, permissionMap, autoDerive, cache, handle, asked, compiles, lastHit>>
  /\ UNCHANGED lvars
  /\ UNCHANGED mvars

\* Phase 2 is over: await queryFunction(inputs, info) resolved, and phase 3
\* starts over the response.
AuthOpResolves(val) ==
  /\ apc = "executing"
  /\ apc' = "validatingOutput"
  /\ areq' = [areq EXCEPT !.response = val]
  /\ UNCHANGED <<impl, permissionMap, autoDerive, cache, handle, asked, compiles, lastHit>>
  /\ UNCHANGED lvars
  /\ UNCHANGED mvars

\* await queryFunction(inputs, info) rejected.
AuthOpRejects ==
  /\ apc = "executing"
  /\ apc' = "failed"
  /\ areq' = [areq EXCEPT !.kind = "opError"]
  /\ UNCHANGED <<impl, permissionMap, autoDerive, cache, handle, asked, compiles, lastHit>>
  /\ UNCHANGED lvars
  /\ UNCHANGED mvars

\* A phase 3 that returns the response whatever the read rules gave.
OutputValidatedReturnsAnyway ==
  /\ apc = "validatingOutput"
  /\ LET ev == validateResponse(areq.map, ResponseType(areq.rootType, areq.name), areq.response)
     IN IF ev.err # "none"
        THEN /\ apc' = "failed"
             /\ areq' = [areq EXCEPT !.kind = ev.err]
        ELSE /\ apc' = "done"
             /\ areq' = [areq EXCEPT !.kind = "value", !.outTree = ev.r]
  /\ UNCHANGED <<impl, permissionMap, autoDerive, cache, handle, asked, compiles, lastHit>>
  /\ UNCHANGED lvars
  /\ UNCHANGED mvars

\* Phase 3 is over: await validateResponse() settled.
OutputValidated ==
  /\ apc = "validatingOutput"
  /\ LET ev == validateResponse(areq.map, ResponseType(areq.rootType, areq.name), areq.response)
     IN IF ev.err # "none"
        THEN /\ apc' = "failed"
             /\ areq' = [areq EXCEPT !.kind = ev.err]
        ELSE IF ~Summarize(ev.r)
        THEN /\ apc' = "failed"
             /\ areq' = [areq EXCEPT !.kind = "denied", !.outTree = ev.r]
        ELSE /\ apc' = "done"
             /\ areq' = [areq EXCEPT !.kind = "value", !.outTree = ev.r]
  /\ UNCHANGED <<impl, permissionMap, autoDerive, cache, handle, asked, compiles, lastHit>>
  /\ UNCHANGED lvars
  /\ UNCHANGED mvars

\* The caller has the outcome.
AuthReturn ==
  /\ apc \in {"done", "failed"}
  /\ apc' = "idle"
  /\ areq' = NoRequest
  /\ UNCHANGED <<impl, permissionMap, autoDerive, cache, handle, asked, compiles, lastHit>>
  /\ UNCHANGED lvars
  /\ UNCHANGED mvars

(***************************************************************************)
(* isMine(queryName, config)(data, ctx).                                   *)
(***************************************************************************)
\* A check that queries for the relationship whether data holds it or not.
MineCheckAlwaysFetches(config, data, user) ==
  /\ impl = "isMine"
  /\ mine.pc = "idle"
  /\ mine' = [NoCheck EXCEPT !.pc = "fetching", !.config = config, !.data = data, !.user = user,
                             !.queries = <<[name |-> "thing",
                                            where |-> Get(data, resourceIdPath(config)),
                                            info |-> "{ user: { id } }"]>>]
  /\ UNCHANGED <<impl>>
  /\ UNCHANGED lvars
  /\ UNCHANGED avars

\* check(data, ctx): with the relationship in data the check decides at
\* once; without it, it calls the query with where: {id} of the resource.
MineCheck(config, data, user) ==
  /\ impl = "isMine"
  /\ mine.pc = "idle"
  /\ IF Get(data, relationshipPath(config)) # Undef
     THEN mine' = [NoCheck EXCEPT !.pc = "done", !.config = config, !.data = data, !.user = user,
                                 !.result = (Get(data, relationshipPath(config)) = Leaf(user))]
     ELSE mine' = [NoCheck EXCEPT !.pc = "fetching", !.config = config, !.data = data,
                                 !.user = user,
                                 !.queries = <<[name |-> "thing",
                                                where |-> Get(data, resourceIdPath(config)),
                                                info |-> "{ user: { id } }"]>>]
  /\ UNCHANGED <<impl>>
  /\ UNCHANGED lvars
  /\ UNCHANGED avars

\* The query resolved: the check decides from the user id it fetched.
MineFetched(resp) ==
  /\ impl = "isMine"
  /\ mine.pc = "fetching"
  /\ mine' = [mine EXCEPT !.pc = "done", !.fetched = resp,
                          !.result = (Get(resp, <<"user", "id">>) = Leaf(mine.user))]
  /\ UNCHANGED <<impl>>
  /\ UNCHANGED lvars
  /\ UNCHANGED avars

\* The test has its answer.
MineReturn ==
  /\ impl = "isMine"
  /\ mine.pc = "done"
  /\ mine' = NoCheck
  /\ UNCHANGED <<impl>>
  /\ UNCHANGED lvars
  /\ UNCHANGED avars

Next ==
  \/ LegacyWrap
  \/ \E name \in QueryNames, args \in ArgObjects, infoOk \in BOOLEAN :
       LegacyCall(name, TRUE, args, infoOk)
  \/ \E name \in mutationNames, args \in ArgObjects, infoOk \in BOOLEAN :
       LegacyCall(name, FALSE, args, infoOk)
  \/ LegacyResume
  \/ \E i \in DOMAIN execs, val \in OpValues : OpResolves(i, val)
  \/ \E i \in DOMAIN execs : OpRejects(i)
  \/ LegacyReturn
  \/ \E map \in PermissionMaps : SetPermissionMap(map)
  \/ \E user \in Users : ForUser(user)
  \/ \E inputs \in InputObjects : AuthCall("Query", <<"post">>, inputs)
  \/ \E inputs \in InputObjects : AuthCall("Mutation", <<"create", "post">>, inputs)
  \/ InputValidated
  \/ \E val \in ResponseValues : AuthOpResolves(val)
  \/ AuthOpRejects
  \/ OutputValidated
  \/ AuthReturn
  \/ \E config \in {"default", "custom"}, user \in MineUserIds :
       \E data \in MineData(config) : MineCheck(config, data, user)
  \/ \E resp \in MineResponses : MineFetched(resp)
  \/ MineReturn

Spec == Init /\ [][Next]_vars

(***************************************************************************)
(* Properties.                                                             *)
(***************************************************************************)
\* The legacy call has a result tree: processAuth returned.
LegacyValidated ==
  /\ impl = "legacy"
  /\ \/ lpc \in {"awaitAuth", "awaitRun", "done"}
     \/ lpc = "failed" /\ outcome.kind \in {"denied", "opError"}

\* The number of leaves of a tree that are the promise of a permission
\* function of the given kind.
RECURSIVE CountLeaves(_, _)
RECURSIVE CountFrom(_, _, _)
CountLeaves(tree, kind) ==
  IF tree.t = "promise" THEN (IF tree.n = kind THEN 1 ELSE 0)
  ELSE IF tree.t = "bool" THEN 0
  ELSE CountFrom(Values(tree), 1, kind)

CountFrom(vals, i, kind) ==
  IF i > Len(vals) THEN 0
  ELSE CountLeaves(vals[i], kind) + CountFrom(vals, i + 1, kind)

\* C1: for every mutation request whose input validation summarizes to false
\* (some leaf of the tree is false), the operation is called zero times and
\* the request fails with an authorization error.
C1_WriteShortCircuit ==
  /\ (LegacyValidated /\ ~lcall.isRead /\ ~Summarize(authResult) /\ lpc # "awaitAuth")
       => /\ Len(execs) = 0
          /\ lpc = "failed"
          /\ outcome.kind = "denied"
  /\ (impl = "authorized" /\ areq.rootType = "Mutation" /\ ~Summarize(areq.inTree))
       => /\ areq.opCalls = 0
          /\ apc = "failed"
          /\ areq.kind = "denied"

\* C2: fail-closed: a field of the arguments whose path has no entry under
\* mapping[resource][operationKind] is a false leaf of the result tree, and
\* the summarized result is then false.
C2_FailClosed ==
  LegacyValidated =>
    \A k \in Keys(lcall.args) :
      GetNode(authMapping, <<ResourceNameOf(lcall.isRead, lcall.name),
                             QueryTypeOf(lcall.isRead, lcall.name), k>>).t = "absent"
        => /\ authResult.f[k] = RBool(FALSE)
           /\ ~Truthy(summarizeAuthResult(authResult))
           /\ lpc \notin {"awaitRun", "done"}

\* C3: a payload is returned only if no leaf of a phase's result tree is
\* false; with a false leaf the request fails with an authorization error
\* that carries the tree.
C3_NoPayloadWhenDenied ==
  /\ (impl = "legacy" /\ lpc = "done") => Summarize(authResult)
  /\ (LegacyValidated /\ ~Summarize(authResult) /\ lpc # "awaitAuth")
       => /\ lpc = "failed"
          /\ outcome.kind = "denied"
          /\ outcome.tree = authResult
  /\ (impl = "authorized" /\ apc = "done")
       => Summarize(areq.inTree) /\ Summarize(areq.outTree)
  /\ (impl = "authorized" /\ (~Summarize(areq.inTree) \/ ~Summarize(areq.outTree)))
       => apc = "failed" /\ areq.kind = "denied"

\* C4: within one request the operation is called at most once, and exactly
\* once when the request is done, however many runs were called, overlapping
\* or not, and whatever the operation resolved to.
C4_AtMostOnce ==
  impl = "legacy" =>
    /\ Len(execs) <= 1
    /\ lpc = "done" => Len(execs) = 1

\* C5 as stated: the operation is not started before input validation has
\* finished, and output validation is not started before the operation has
\* produced its result.
C5_PhasesNeverOverlap ==
  /\ (impl = "legacy" /\ lpc = "awaitAuth") => Len(execs) = 0
  /\ (impl = "legacy" /\ lpc = "failed" /\ outcome.kind \in {"threw", "denied", "syntaxError"})
       => Len(execs) = 0
  /\ (impl = "authorized" /\ apc = "validatingInput") => areq.opCalls = 0
  /\ (impl = "authorized" /\ apc = "validatingOutput")
       => areq.opCalls = 1 /\ areq.response # Undef

\* C5 as amended: the pipeline itself starts the operation only after input
\* validation has finished; before that the operation runs only as often as
\* the permission functions called the run they were handed (legacy
\* wrapper); in the class Authorized the three phases never overlap.
C5_PipelineOrdersPhases ==
  /\ (impl = "legacy" /\ lpc = "awaitAuth")
       => /\ \A i \in DOMAIN execs : execs[i].by = "resolver"
          /\ Len(execs) = CountLeaves(authResult, "runAsync")
  /\ (impl = "legacy" /\ lpc = "failed" /\ outcome.kind \in {"threw", "denied", "syntaxError"})
       => \A i \in DOMAIN execs : execs[i].by = "resolver"
  /\ (impl = "legacy" /\ lpc = "awaitRun")
       => /\ execs[Len(execs)].by = "wrapped"
          /\ \A i \in 1..(Len(execs) - 1) : execs[i].by = "resolver"
  /\ (impl = "authorized" /\ apc = "validatingInput")
       => areq.opCalls = 0 /\ areq.response = Undef
  /\ (impl = "authorized" /\ apc = "executing")
       => /\ areq.opCalls = 1
          /\ areq.response = Undef
          /\ areq.outTree = NoTree
          /\ Summarize(areq.inTree)
  /\ (impl = "authorized" /\ apc = "validatingOutput")
       => /\ areq.opCalls = 1
          /\ areq.response # Undef
          /\ areq.outTree = NoTree

\* C5, witness: a mutation of the class Authorized validates its response: its inputs
\* were validated and its operation ran once.
C5_Witness ==
  /\ impl = "authorized"
  /\ apc = "validatingOutput"
  /\ areq.rootType = "Mutation"
  /\ areq.inTree # NoTree
  /\ areq.opCalls = 1

\* C6: summarizeAuthResult(result) is the conjunction of the boolean leaves
\* of the result tree, at any depth; an empty mapping gives true.
C6_SummarizeIsConjunction ==
  LegacyValidated => (Truthy(summarizeAuthResult(authResult)) <=> Summarize(authResult))

\* C7: after setPermissionMap no entry of the cache survives, for any user,
\* so the pipeline forUser returns after a replacement was built from the
\* new permission map.
C7_CacheFollowsPermissionMap ==
  impl = "authorized" =>
    /\ \A u \in DOMAIN cache : cache[u].map = CompleteMap(permissionMap, autoDerive)
    /\ handle.current => handle.map = CompleteMap(permissionMap, autoDerive)

\* C7, witness: a request of a user is in flight with the pipeline of an earlier
\* permission map, and forUser has since returned the same user a pipeline
\* of the permission map that replaced it.
C7_Witness ==
  /\ impl = "authorized"
  /\ apc # "idle"
  /\ areq.user = handle.user
  /\ handle.current
  /\ areq.map # handle.map
  /\ handle.map = CompleteMap(permissionMap, autoDerive)
  /\ Cardinality(DOMAIN cache) = 1

\* C8: a permission function that throws, or whose promise rejects, makes
\* the request fail with an evaluation error: the request does not go on to
\* run the operation and never ends done, and when the function threw the
\* operation was not called.
C8_EvaluationErrorFails ==
  /\ (LegacyValidated /\ CountLeaves(authResult, "asyncReject") > 0)
       => lpc \in {"awaitAuth", "failed"}
  /\ (impl = "legacy" /\ lpc = "failed" /\ outcome.kind = "threw") => Len(execs) = 0
  /\ (impl = "authorized" /\ areq.kind \in {"evalError", "unknownResource"})
       => apc = "failed" /\ (areq.rootType = "Mutation" => areq.opCalls = 0 \/ areq.response # Undef)

\* C9: under Delegate(R2) at the field author, the sub-value is authorized
\* against the rules of R2 for the same query type, with paths relative to
\* the sub-value.
C9_DelegateUsesOtherResource ==
  (/\ LegacyValidated
   /\ "author" \in Keys(lcall.args)
   /\ getAuthResolver(authMapping, ResourceNameOf(lcall.isRead, lcall.name),
                      QueryTypeOf(lcall.isRead, lcall.name), <<"author">>).t = "del")
    => authResult.f["author"] =
         processAuth(Child(lcall.args, "author"), authMapping,
                     getAuthResolver(authMapping, ResourceNameOf(lcall.isRead, lcall.name),
                                     QueryTypeOf(lcall.isRead, lcall.name), <<"author">>).n,
                     QueryTypeOf(lcall.isRead, lcall.name)).r

\* C10: the value returned when a request is done is the value of the one
\* execution of the operation; no other execution took place whose result
\* could have been returned or authorized instead.
C10_ReturnsTheOneExecution ==
  /\ (impl = "legacy" /\ lpc = "done")
       => /\ outcome.v.e \in DOMAIN execs
          /\ \A i \in DOMAIN execs : i = outcome.v.e
  /\ (impl = "authorized" /\ apc = "done")
       => areq.opCalls = 1 /\ areq.response \in ResponseValues

\* C11: once an invocation of the lazy run has ended in a rejection of the
\* operation, the rejection is cached: no later step of the request invokes
\* the operation again, and the request does not end with a value.
C11_RejectionIsCached ==
  [][(impl = "legacy" /\ \E i \in DOMAIN execs : execs[i].st = "rejected")
       => /\ Len(execs') <= Len(execs)
          /\ lpc' # "done"]_vars

\* C12: forUser is memoized by principal: between two replacements of the
\* permission map the pipeline of a user is built once, however often
\* forUser is called, the pipeline stored under a user was built for that
\* user alone, and forUser(p) returns the stored pipeline of p, whose
\* requests carry p as the user of their context.
C12_ForUserMemoizedByPrincipal ==
  impl = "authorized" =>
    /\ \A u \in Users : compiles[u] = (IF CacheKey(u) \in DOMAIN cache THEN 1 ELSE 0)
    /\ \A k \in DOMAIN cache : CacheKey(cache[k].user) = k
    /\ \A u, v \in DOMAIN cache : cache[u].user = cache[v].user => u = v
    /\ handle.user = asked
    /\ (handle.current /\ handle.user # "")
         => cache[CacheKey(asked)] = [user |-> asked, map |-> handle.map]

\* C12, witness: forUser was served from the cache for one user while the
\* cache also holds the pipeline of another user, and a request of the
\* first user is in flight.
C12_Witness ==
  /\ impl = "authorized"
  /\ lastHit
  /\ Cardinality(DOMAIN cache) = 2
  /\ asked = "u1"
  /\ apc = "validatingOutput"
  /\ areq.user = "u1"

\* What phase 1 of the request in flight gives under a mapping.
InputsUnder(map) == validateInputs(map, InputTypes(areq.rootType, areq.name), areq.inputs)

\* What phase 3 of the request in flight gives under a mapping.
ResponseUnder(map) == validateResponse(map, ResponseType(areq.rootType, areq.name), areq.response)

\* C13: whatever setPermissionMap does while a request is in flight, the
\* request goes through its phases and both its write-phase and its
\* read-phase decision are those of the one mapping its pipeline was built
\* with; the replacement causes no error.
C13_InFlightKeepsItsMapping ==
  (impl = "authorized" /\ apc # "idle") =>
    /\ \E m \in PermissionMaps : areq.map = CompleteMap(m, autoDerive)
    /\ (areq.rootType = "Mutation" /\ apc \in {"executing", "validatingOutput", "done"})
         => /\ InputsUnder(areq.map).err = "none"
            /\ areq.inTree = InputsUnder(areq.map).r
            /\ Summarize(areq.inTree)
    /\ (areq.rootType = "Mutation" /\ apc = "failed" /\ areq.response = Undef
          /\ areq.kind # "opError")
         => /\ areq.kind = (IF InputsUnder(areq.map).err # "none"
                            THEN InputsUnder(areq.map).err ELSE "denied")
            /\ InputsUnder(areq.map).err = "none"
                 => areq.inTree = InputsUnder(areq.map).r /\ ~Summarize(areq.inTree)
    /\ apc = "done"
         => /\ ResponseUnder(areq.map).err = "none"
            /\ areq.outTree = ResponseUnder(areq.map).r
            /\ Summarize(areq.outTree)
    /\ (apc = "failed" /\ areq.response # Undef)
         => /\ areq.kind = (IF ResponseUnder(areq.map).err # "none"
                            THEN ResponseUnder(areq.map).err ELSE "denied")
            /\ ResponseUnder(areq.map).err = "none"
                 => areq.outTree = ResponseUnder(areq.map).r /\ ~Summarize(areq.outTree)

\* C13, witness: a mutation is done whose inputs the permission map of now
\* denies: setPermissionMap replaced the map while the request was in
\* flight, and both phases were decided by the mapping of the pipeline.
C13_Witness ==
  /\ impl = "authorized"
  /\ apc = "done"
  /\ areq.rootType = "Mutation"
  /\ areq.inTree # NoTree
  /\ areq.map # CompleteMap(permissionMap, autoDerive)
  /\ ~Summarize(InputsUnder(CompleteMap(permissionMap, autoDerive)).r)
  /\ Summarize(areq.inTree) /\ Summarize(areq.outTree)

\* C14: a mutation whose name has no create/update/upsert/delete
\* classification fails only the request that names it, with an
\* unknown-operation error and without a call of the operation; the other
\* operations of the same user are wrapped and served; a read is never
\* subject to the error.
C14_UnknownOperationFailsItsRequestOnly ==
  impl = "legacy" =>
    /\ lwrap # "threw"
    /\ (lpc # "idle" /\ ~lcall.isRead /\ getQueryType(lcall.name) = "throws")
         => /\ lpc = "failed"
            /\ outcome.kind = "unknownOperation"
            /\ Len(execs) = 0
    /\ (lpc # "idle" /\ lcall.isRead) => outcome.kind # "unknownOperation"

\* The user id isMine compares: the one in data, or the one it fetched.
MineUserIdFound ==
  IF Get(mine.data, relationshipPath(mine.config)) # Undef
  THEN Get(mine.data, relationshipPath(mine.config))
  ELSE Get(mine.fetched, <<"user", "id">>)

\* C15: isMine returns true iff the user id at the relationship path is the
\* id of the current user; with the relationship in data it makes no query;
\* without it, it makes one query, with where: {id: the resource id of
\* data}, and decides from the user id it fetched.
C15_IsMineComparesOwner ==
  (impl = "isMine" /\ mine.pc # "idle") =>
    /\ Get(mine.data, relationshipPath(mine.config)) # Undef
         => mine.pc = "done" /\ mine.queries = <<>>
    /\ Get(mine.data, relationshipPath(mine.config)) = Undef
         => /\ Len(mine.queries) = 1
            /\ mine.queries[1].name = "thing"
            /\ mine.queries[1].where = Get(mine.data, resourceIdPath(mine.config))
            /\ mine.queries[1].where # Undef
    /\ mine.pc = "done" => (mine.result <=> MineUserIdFound = Leaf(mine.user))

\* C15, witness: a check without the relationship in data has fetched the
\* user of the resource and found the current user.
C15_Witness ==
  /\ impl = "isMine"
  /\ mine.pc = "done"
  /\ Len(mine.queries) = 1
  /\ mine.queries[1].where = Leaf("r1")
  /\ mine.result
  /\ mine.user = "foo"

\* Whether a tree holds the promise of a permission function as a leaf.
HasPromiseLeaf(tree) == \E kind \in PredKinds : CountLeaves(tree, kind) > 0

\* C16: when the result tree of a phase is summarized every permission
\* function started for the phase has settled: the tree holds booleans and
\* nested mappings only, no promise, and a function whose promise resolves
\* to false has made the summary false.
C16_TreeSettledBeforeSummary ==
  /\ (LegacyValidated /\ lpc # "awaitAuth") => ~HasPromiseLeaf(authResult)
  /\ (impl = "authorized" /\ apc # "idle")
       => ~HasPromiseLeaf(areq.inTree) /\ ~HasPromiseLeaf(areq.outTree)
  /\ (impl = "authorized" /\ apc \in {"done", "failed"} /\ areq.response # Undef
        /\ areq.map = CompleteMap(MapNoRead, autoDerive)
        /\ Get(areq.response, <<"author", "email">>) # Undef)
       => apc = "failed" /\ areq.kind = "denied" /\ ~Summarize(areq.outTree)

\* Whether a tree has the shape of the data: a mapping with the keys of the
\* data wherever the data is an object, a leaf wherever it is a scalar.
RECURSIVE Mirrors(_, _)
Mirrors(tree, data) ==
  IF data.t = "obj"
  THEN /\ tree.t = "obj"
       /\ tree.o = data.o
       /\ DOMAIN tree.f = DOMAIN data.f
       /\ \A k \in DOMAIN data.f : Mirrors(tree.f[k], data.f[k])
  ELSE tree.t # "obj"

\* The data of the scenario: {title: 'x', author: {email: 'a@b.com'}}.
ScenarioData ==
  Obj(<<"title", "author">>,
      [title |-> Leaf("str"), author |-> Obj(<<"email">>, [email |-> Leaf("str")])])

\* The legacy call is the scenario: rules {title: true, 'author.email':
\* false} of post.get over the data of the scenario.
InScenario ==
  /\ LegacyValidated
  /\ authMapping = FlatKeyMapping
  /\ lcall.isRead
  /\ lcall.args = ScenarioData

\* C17 as stated: the result tree mirrors the data at every level, and the
\* rules {title: true, 'author.email': false} over {title, author: {email}}
\* give the tree {title: true, author: {email: false}} and the summary false.
C17_TreeMirrorsData ==
  /\ LegacyValidated => Mirrors(authResult, lcall.args)
  /\ InScenario
       => /\ authResult = RObj(<<"title", "author">>,
                               [title |-> RBool(TRUE),
                                author |-> RObj(<<"email">>, [email |-> RBool(FALSE)])])
          /\ ~Summarize(authResult)

\* Whether a tree is what the rules at levelKey give over the data: a
\* mapping with the keys of the data; under each key the boolean of the
\* rules (false without an entry), or, where the rules nest, the tree of
\* the nested rules over the value. Functions and delegates are left open.
RECURSIVE FollowsRules(_, _, _)
FollowsRules(tree, data, levelKey) ==
  /\ tree.t = "obj"
  /\ tree.o = ObjectKeys(data)
  /\ DOMAIN tree.f = Keys(data)
  /\ \A k \in Keys(data) :
       LET node == GetNode(authMapping,
                           <<ResourceNameOf(lcall.isRead, lcall.name),
                             QueryTypeOf(lcall.isRead, lcall.name)>> \o levelKey \o <<k>>)
       IN CASE node.t = "absent" -> tree.f[k] = RBool(FALSE)
            [] node.t = "bool" -> tree.f[k] = RBool(node.b)
            [] node.t = "sub" -> FollowsRules(tree.f[k], Child(data, k), levelKey \o <<k>>)
            [] OTHER -> TRUE

\* C17 as amended: the result tree follows the rules, not the data: it has
\* the keys of the data at the root and at every level the rules nest; a
\* field whose rule is a boolean, or has no entry, is a boolean leaf
\* whatever the data holds beneath it; rules are looked up key by key along
\* the path, so a dotted key is never found: {title: true, 'author.email':
\* false} over {title, author: {email}} gives {title: true, author: false},
\* a tree with a false leaf.
C17_TreeFollowsRules ==
  /\ LegacyValidated => FollowsRules(authResult, lcall.args, <<>>)
  /\ InScenario
       => /\ authResult = RObj(<<"title", "author">>,
                               [title |-> RBool(TRUE), author |-> RBool(FALSE)])
          /\ ~Summarize(authResult)

\* C17, witness: the scenario has been evaluated.
C17_Witness == InScenario /\ lpc = "awaitAuth"

\* The path from the root of the result of the operation that a run reads.
RECURSIVE Flatten(_)
Flatten(run) == IF run = <<>> THEN <<>> ELSE Head(run) \o Flatten(Tail(run))

\* The rule of the call's resource and query type for a key.
RuleOf(k) ==
  GetNode(authMapping, <<ResourceNameOf(lcall.isRead, lcall.name),
                         QueryTypeOf(lcall.isRead, lcall.name), k>>)

\* The runs the permission functions of the call are due to invoke, each
\* given by the path it reads from the root of the result, in call order:
\* one for every field of the data whose rule calls run, at the path of
\* the delegations above it.
RECURSIVE RunsDue(_, _)
RECURSIVE RunsDueFrom(_, _, _, _)
RunsDue(data, prefix) == RunsDueFrom(ObjectKeys(data), 1, data, prefix)

RunsDueFrom(ks, i, data, prefix) ==
  IF i > Len(ks) THEN <<>>
  ELSE (CASE RuleOf(ks[i]) = PPred("runAsync") -> <<prefix>>
          [] RuleOf(ks[i]).t = "del" -> RunsDue(Child(data, ks[i]), prefix \o <<ks[i]>>)
          [] OTHER -> <<>>)
       \o RunsDueFrom(ks, i + 1, data, prefix)

\* The executions of the operation started by runs of permission functions.
ResolverRuns == SelectSeq(execs, LAMBDA e : e.by = "resolver")

\* C18: a projected run is lazy and compositional: creating one, at any
\* depth of delegation, does not run the operation (the operation runs as
\* often as runs are invoked, not as often as they are created), and a run
\* projected at p1 and then at p2 resolves to the value at p1.p2 of the
\* result of the operation.
C18_ProjectedRunLazyAndCompositional ==
  LegacyValidated =>
    LET due == RunsDue(lcall.args, <<>>)
    IN /\ Len(ResolverRuns) = Len(due)
       /\ \A i \in 1..Len(due) :
            /\ execs[i].by = "resolver"
            /\ Flatten(execs[i].proj) = due[i]
            /\ (execs[i].st = "resolved" /\ runResult.e = i)
                 => execs[i].v = Get(runResult.v, due[i])

\* C18, witness: under a delegation within a delegation one run was
\* invoked, and it resolved to the value at author.author of the result;
\* the delegations themselves ran nothing.
C18_Witness ==
  /\ LegacyValidated
  /\ Len(execs) = 1
  /\ execs[1].proj = << <<"author">>, <<"author">> >>
  /\ execs[1].st = "resolved"
  /\ execs[1].v = Obj(<<"email">>, [email |-> Leaf("str")])

\* C19: a mutation whose inputs pass the write rules and whose response
\* fails the read rules ends with an authorization error and without the
\* response; by then the operation has been called, exactly once: the
\* denial of phase 3 neither prevents nor repeats the call.
C19_ReadDenialAfterExecution ==
  (/\ impl = "authorized"
   /\ areq.rootType = "Mutation"
   /\ apc \in {"done", "failed"}
   /\ areq.response # Undef
   /\ ResponseUnder(areq.map).err = "none"
   /\ ~Summarize(ResponseUnder(areq.map).r))
    => /\ apc = "failed"
       /\ areq.kind = "denied"
       /\ areq.outTree = ResponseUnder(areq.map).r
       /\ areq.opCalls = 1
       /\ Summarize(areq.inTree)

\* C19, witness: a mutation with validated inputs was denied in phase 3
\* after its operation had run once.
C19_Witness ==
  /\ impl = "authorized"
  /\ areq.rootType = "Mutation"
  /\ apc = "failed"
  /\ areq.kind = "denied"
  /\ areq.response # Undef
  /\ areq.inTree # NoTree
  /\ Summarize(areq.inTree)
  /\ ~Summarize(areq.outTree)
  /\ areq.opCalls = 1

\* The legacy call is a mutation over many: updateMany... or deleteMany...
ManyCall ==
  /\ impl = "legacy"
  /\ lpc # "idle"
  /\ ~lcall.isRead
  /\ Len(lcall.name) >= 3
  /\ lcall.name[1] \in {"update", "delete"}
  /\ lcall.name[2] = "many"

\* C20: the classification of a name picks the most specific kind: a
\* mutation whose name begins with updateMany or deleteMany is of kind
\* updateMany or deleteMany, its resource is what is left of the name
\* (updateManyPosts: kind updateMany, resource posts), and the rules are
\* looked up under that resource and kind.
C20_MostSpecificKind ==
  ManyCall =>
    /\ QueryTypeOf(FALSE, lcall.name) = (IF lcall.name[1] = "update" THEN "updateMany" ELSE "deleteMany")
    /\ ResourceNameOf(FALSE, lcall.name) = camel(SubSeq(lcall.name, 3, Len(lcall.name)))
    /\ LegacyValidated
         => \A k \in Keys(lcall.args) :
              GetNode(authMapping, <<"posts", QueryTypeOf(FALSE, lcall.name), k>>).t = "bool"
                => authResult.f[k] = RBool(GetNode(authMapping, <<"posts", "updateMany", k>>).b)

====
